---- MODULE Spec2Model ----
(***************************************************************************)
(* Model of minibrain/burstcounter.py: the class Burst, its method         *)
(* long_burst and the module-level instance `burst`.                       *)
(*                                                                         *)
(* numpy arrays are modelled as functions over 0..n-1, so that every index *)
(* of the model is the index of the Python source.  Envelope samples are   *)
(* natural numbers; comparisons against the standard deviation are made    *)
(* exactly, on squares (no square root is taken).                          *)
(***************************************************************************)
EXTENDS Integers, Sequences, FiniteSets, TLC

(* ------------------------------ bounds --------------------------------- *)

\* Length of the envelope (myrms) handed to long_burst.
EnvLen == 80

\* The envelopes checked are silent (zero) except in their first HeadLen and
\* their last TailLen samples, which take every combination of Levels.
HeadLen == 4
TailLen == 2

\* Sample values an envelope is made of.
Levels == {0, 2, 10}

\* Raw sampling rates passed to burst(data, srate); multiples of 60, so that
\* srate/60 is an integer: envelope rates 8, 20, 30, 75, 500 and 900.  30000 is
\* the default of the source; at 54000 the 100 ms window is longer than the
\* envelope.
SRates == {480, 1200, 1800, 4500, 30000, 54000}

(* --------------------------- array helpers ----------------------------- *)

Size(a) == Cardinality(DOMAIN a)

EmptyArr == << >>

\* The array of the n values f[0..n-1] given as a 1-based sequence.
FromSeq(s) == [j \in 0..(Len(s) - 1) |-> s[j + 1]]

concatenate(a, b) ==
    [j \in 0..(Size(a) + Size(b) - 1) |->
        IF j < Size(a) THEN a[j] ELSE b[j - Size(a)]]

Min(S) == CHOOSE m \in S : \A o \in S : m <= o
Max(S) == 0 - Min({0 - o : o \in S})

RECURSIVE SortedSeq(_)
SortedSeq(S) == IF S = {} THEN << >>
                ELSE <<Min(S)>> \o SortedSeq(S \ {Min(S)})

\* The elements of a set of integers as an increasing array.
SortedArr(S) == FromSeq(SortedSeq(S))

\* numpy/Python index normalisation: a negative index counts from the end.
PyIndex(k, n) == IF k < 0 THEN k + n ELSE k

\* a[ind] for an index array ind (numpy fancy indexing, a copy).
IndexOk(a, ind) == \A j \in DOMAIN ind :
                      PyIndex(ind[j], Size(a)) \in 0..(Size(a) - 1)

Take(a, ind) == [j \in DOMAIN ind |-> a[PyIndex(ind[j], Size(a))]]

\* The indices selected by the slice [start:stop:-1] of an array of n
\* elements (Python slice semantics for a negative step).
SliceBound(k, n) == IF k < 0
                    THEN (IF k + n < 0 THEN -1 ELSE k + n)
                    ELSE (IF k >= n THEN n - 1 ELSE k)

RevSlice(n, start, stop) ==
    LET lo == SliceBound(stop, n)
        hi == SliceBound(start, n)
    IN  [k \in 0..(hi - lo - 1) |-> hi - k]

(* ------------------------- standard deviation -------------------------- *)

\* a[0] + ... + a[n-1], summed by halves.
Sum(a) ==
    LET n == Size(a)
        part[lo \in 0..n, hi \in -1..n] ==
            IF lo > hi THEN 0
            ELSE IF lo = hi THEN a[lo]
            ELSE part[lo, (lo + hi) \div 2] + part[(lo + hi) \div 2 + 1, hi]
    IN  part[0, n - 1]

\* n^2 times the (population) variance of a: (n * a.std())^2.
ScaledVar(a) == LET n == Size(a)
                    s == Sum(a)
                IN  n * Sum([j \in DOMAIN a |-> a[j] * a[j]]) - s * s

\* A threshold t >= 0 is kept as the pair (n, sq) with (n * t)^2 = sq, which
\* makes every comparison of a sample with it exact.
std(a) == [n |-> Size(a), sq |-> ScaledVar(a)]

\* No threshold was computed (a call without data).
NoThreshold == [n |-> 0, sq |-> 0]

Times(c, thr) == [n |-> thr.n, sq |-> c * c * thr.sq]

\* v < thr, v > thr, v >= thr
Lt(v, thr) == v < 0 \/ (v * thr.n) * (v * thr.n) < thr.sq
Gt(v, thr) == v > 0 /\ (v * thr.n) * (v * thr.n) > thr.sq
Ge(v, thr) == ~Lt(v, thr)

(* ------------------------------ find_peaks ----------------------------- *)

\* The two ends of the flat run of x that holds index m.
PlateauLeft(x, m) ==
    IF m > 0 /\ x[m - 1] = x[m]
    THEN Min({l \in 0..m : \A k \in l..m : x[k] = x[m]})
    ELSE m

PlateauRight(x, m) ==
    IF m < Size(x) - 1 /\ x[m + 1] = x[m]
    THEN Max({r \in m..(Size(x) - 1) : \A k \in m..r : x[k] = x[m]})
    ELSE m

\* m is a local maximum of x: the middle (rounded down) of a flat run whose
\* two neighbours are strictly lower; the first and last sample never are.
IsLocalMax(x, m) ==
    LET l == PlateauLeft(x, m)
        r == PlateauRight(x, m)
    IN  /\ l >= 1
        /\ r <= Size(x) - 2
        /\ x[l - 1] < x[l]
        /\ x[r + 1] < x[r]
        /\ m = (l + r) \div 2

\* signal.find_peaks(x, height): the local maxima of height >= height.
find_peaks(x, height) ==
    SortedArr({m \in DOMAIN x : Ge(x[m], height) /\ IsLocalMax(x, m)})

(* ------------------------------ long_burst ----------------------------- *)

\* int(0.100*srate) and int(0.250*srate)
Int100ms(srate) == srate \div 10
Int250ms(srate) == srate \div 4

\* Mutant: a gap equal to srate splits, too (>= for >).
LargeGaps_GE(p, srate) ==
    SortedArr({j \in 0..(Size(p) - 2) : p[j + 1] - p[j] >= 1 * srate})

\* Mutant: the gap is compared with 100 ms of samples, not with 1 s.
LargeGaps_Tenth(p, srate) ==
    SortedArr({j \in 0..(Size(p) - 2) : p[j + 1] - p[j] > srate \div 10})

\* dx = np.diff(p); idx = np.where(dx > 1*srate)[0]
LargeGaps(p, srate) ==
    SortedArr({j \in 0..(Size(p) - 2) : p[j + 1] - p[j] > 1 * srate})

\* Mutant: the + 1 of idx + 1 forgotten.
GroupStart_NoShift(p, srate) ==
    LET idx == LargeGaps(p, srate)
    IN  concatenate(FromSeq(<<0>>), idx)

\* start = np.concatenate(([0], idx + 1))
GroupStart(p, srate) ==
    LET idx == LargeGaps(p, srate)
    IN  concatenate(FromSeq(<<0>>), [j \in DOMAIN idx |-> idx[j] + 1])

\* Mutant: the first peak, not the last, closes the last group ([0] for [-1]).
GroupEnd_First(p, srate) ==
    LET idx == LargeGaps(p, srate)
    IN  concatenate(idx, FromSeq(<<0>>))

\* end = np.concatenate((idx, [-1]))
GroupEnd(p, srate) ==
    LET idx == LargeGaps(p, srate)
    IN  concatenate(idx, FromSeq(<<-1>>))

\* One pass of the loop over pstart: the refined value of pstart[i] = x.
RefineStart(rmsdata, lowthr, srate, x) ==
    LET tmp == RevSlice(Size(rmsdata), x, x - Int100ms(srate))
        val == {k \in DOMAIN tmp : Lt(rmsdata[tmp[k]], lowthr)}
    IN  IF val = {} THEN x ELSE x - Min(val)

\* Mutant: the offset from the far end is added, not subtracted.
RefineEnd_AddOffset(rmsdata, lowthr, srate, x) ==
    LET tmp == RevSlice(Size(rmsdata), x + Int250ms(srate), x)
        val == {k \in DOMAIN tmp : Gt(rmsdata[tmp[k]], lowthr)}
    IN  IF val = {} THEN x ELSE x + (Int250ms(srate) + Min(val))

\* Mutant: the window is read forward (x+1 first), with the same arithmetic.
RefineEnd_Forward(rmsdata, lowthr, srate, x) ==
    LET tmp == RevSlice(Size(rmsdata), x + Int250ms(srate), x)
        val == {Size(tmp) - 1 - k : k \in {k \in DOMAIN tmp : Gt(rmsdata[tmp[k]], lowthr)}}
    IN  IF val = {} THEN x ELSE x + (Int250ms(srate) - Min(val))

\* One pass of the loop over pend: the refined value of pend[i] = x.
RefineEnd(rmsdata, lowthr, srate, x) ==
    LET tmp == RevSlice(Size(rmsdata), x + Int250ms(srate), x)
        val == {k \in DOMAIN tmp : Gt(rmsdata[tmp[k]], lowthr)}
    IN  IF val = {} THEN x ELSE x + (Int250ms(srate) - Min(val))

\* list(zip(a, b))
zip(a, b) ==
    LET n == IF Size(a) < Size(b) THEN Size(a) ELSE Size(b)
    IN  [j \in 0..(n - 1) |-> <<a[j], b[j]>>]

\* The locals of long_burst(rmsdata, srate) when it ends: raised is the
\* exception it ends with ("" when it returns), lowthr, p the peaks, pstart0 and
\* pend0 the values of pstart and pend before their refinement loops, pstart
\* and pend their values after them.
long_burst_locals(rmsdata, srate) ==
    LET lowthr  == std(rmsdata)
        highthr == Times(5, lowthr)
        p       == find_peaks(rmsdata, highthr)
        start   == GroupStart(p, srate)
        end     == GroupEnd(p, srate)
    IN  IF ~IndexOk(p, start) \/ ~IndexOk(p, end)
        THEN [raised |-> "IndexError", lowthr |-> lowthr, p |-> p,
              pstart0 |-> EmptyArr, pend0 |-> EmptyArr,
              pstart |-> EmptyArr, pend |-> EmptyArr]
        ELSE LET pstart0 == Take(p, start)
                 pend0   == Take(p, end)
             IN  [raised |-> "", lowthr |-> lowthr, p |-> p,
                  pstart0 |-> pstart0, pend0 |-> pend0,
                  pstart |-> [i \in DOMAIN pstart0 |->
                                RefineStart(rmsdata, lowthr, srate, pstart0[i])],
                  pend |-> [i \in DOMAIN pend0 |->
                              RefineEnd(rmsdata, lowthr, srate, pend0[i])]]

\* What long_burst hands back: return list(zip(pstart, pend)), or the
\* exception.
long_burst_return(f) ==
    [raised |-> f.raised, idx |-> zip(f.pstart, f.pend)]

(* ------------------------------ class Burst ---------------------------- *)

\* Burst.__init__(data, srate), with myrms the envelope the conditioning
\* calls (lfp.band_pass, lfp.decimate, lfp.rms) make of data: the locals of
\* its call of long_burst.
BurstInit(myrms, srate) ==
    LET mysrate == srate \div 60
    IN  long_burst_locals(myrms, mysrate)

\* Burst.__init__ with data = None: self.idx = []
BurstInitNone == EmptyArr

\* Burst.__len__
BurstLen(idx) == Size(idx)

(* ------------------------------ state ---------------------------------- *)

VARIABLES
    rmsdata,    \* the envelope of the data the caller holds
    srate,      \* the sampling rate the caller passes with it
    burst_idx,  \* burst.idx, the idx of the module-level instance
    pc,         \* "idle" before any call; then how the last call ended
    arg,        \* what the last call was given: "data" or "None"
    ret,        \* idx of the Burst the last call returned
    lowthr,     \* the lowthr of the last call's long_burst
    peaks,      \* the peaks p of the last call's long_burst
    prov        \* its zip(pstart, pend) before the refinement loops

vars == <<rmsdata, srate, burst_idx, pc, arg, ret, lowthr, peaks, prov>>

\* The envelope with head h, tail t and silence between.
EnvelopeOf(h, t) ==
    [i \in 0..(EnvLen - 1) |->
        IF i < HeadLen THEN h[i]
        ELSE IF i >= EnvLen - TailLen THEN t[i - (EnvLen - TailLen)]
        ELSE 0]

\* burst = Burst(srate = 30000)
Init ==
    /\ \E h \in [0..(HeadLen - 1) -> Levels], t \in [0..(TailLen - 1) -> Levels] :
           rmsdata = EnvelopeOf(h, t)
    /\ srate \in SRates
    /\ burst_idx = BurstInitNone
    /\ pc = "idle"
    /\ arg = "None"
    /\ ret = EmptyArr
    /\ lowthr = NoThreshold
    /\ peaks = EmptyArr
    /\ prov = EmptyArr

\* Mutant: __call__ re-initialises the instance it is called on.
CallData_InPlace ==
    \E f \in {BurstInit(rmsdata, srate)} :
    \E r \in {long_burst_return(f)} :
        /\ pc' = IF r.raised = "" THEN "returned" ELSE "raised"
        /\ arg' = "data"
        /\ ret' = r.idx
        /\ burst_idx' = r.idx
        /\ lowthr' = f.lowthr
        /\ peaks' = f.p
        /\ prov' = zip(f.pstart0, f.pend0)
        /\ UNCHANGED <<rmsdata, srate>>

\* burst(data, srate): Burst.__call__ makes and returns Burst(data, srate);
\* the instance called is not touched.
CallData ==
    \E f \in {BurstInit(rmsdata, srate)} :
    \E r \in {long_burst_return(f)} :
        /\ pc' = IF r.raised = "" THEN "returned" ELSE "raised"
        /\ arg' = "data"
        /\ ret' = r.idx
        /\ lowthr' = f.lowthr
        /\ peaks' = f.p
        /\ prov' = zip(f.pstart0, f.pend0)
        /\ UNCHANGED <<rmsdata, srate, burst_idx>>

\* burst(): Burst.__call__ with data = None.
CallNone ==
    /\ pc' = "returned"
    /\ arg' = "None"
    /\ ret' = BurstInitNone
    /\ lowthr' = NoThreshold
    /\ peaks' = EmptyArr
    /\ prov' = EmptyArr
    /\ UNCHANGED <<rmsdata, srate, burst_idx>>

Next == CallData \/ CallNone

Spec == Init /\ [][Next]_vars

(* ------------------------------ claims --------------------------------- *)

\* The rate of the envelope of the last call, and the two window lengths.
mysrate == srate \div 60
W100 == Int100ms(mysrate)
W250 == Int250ms(mysrate)

\* The last call was burst(data, srate) and has ended / has returned.
Called == pc # "idle" /\ arg = "data"
Returned == pc = "returned" /\ arg = "data"

\* Number of the peak gaps that exceed the envelope rate.
NLargeGaps == Cardinality({j \in 0..(Size(peaks) - 2) : peaks[j + 1] - peaks[j] > mysrate})

\* Positions in peaks of the first and of the last peak of each maximal run
\* of peaks whose successive gaps are <= mysrate.
RunFirsts == {j \in DOMAIN peaks : j = 0 \/ peaks[j] - peaks[j - 1] > mysrate}
RunLasts == {j \in DOMAIN peaks : j = Size(peaks) - 1 \/ peaks[j + 1] - peaks[j] > mysrate}

\* C1: when peak-finding returns no peak, long_burst returns the empty list
\* and raises nothing.
C1_EmptyPeaksReturnEmpty ==
    (Called /\ Size(peaks) = 0) => (pc = "returned" /\ Size(ret) = 0)

C3_StartsStrictlyIncreasing ==
    Returned => \A i \in 0..(Size(ret) - 2) : ret[i][1] < ret[i + 1][1]

\* C3 witness: two intervals, the start of the second pulled back.
C3_Witness ==
    /\ Returned
    /\ Size(ret) >= 2
    /\ ret[1][1] < prov[1][1]

\* C4: every returned interval has start <= end.
C4_StartLeEnd ==
    Returned => \A i \in DOMAIN ret : ret[i][1] <= ret[i][2]

\* C4 witness: a group of one peak whose start was shifted backward.
C4_Witness ==
    /\ Returned
    /\ \E i \in DOMAIN ret : prov[i][1] = prov[i][2] /\ ret[i][1] < prov[i][1]

\* C5: a refined start is at most W100 samples before its provisional start
\* peak, a refined end at most W250 samples after its provisional end peak.
C5_RefinementBounds ==
    Returned => \A i \in DOMAIN ret :
                   /\ ret[i][1] >= prov[i][1] - W100
                   /\ ret[i][2] <= prov[i][2] + W250

\* C5 witness: an interval whose start and end were both moved, the end to a
\* sample of the envelope.
C5_Witness ==
    /\ Returned
    /\ \E i \in DOMAIN ret :
         /\ ret[i][1] < prov[i][1]
         /\ ret[i][2] > prov[i][2]
         /\ ret[i][2] <= Size(rmsdata) - 1

\* C6: every returned start and end is an index of the envelope.
C6_ValidIndices ==
    Returned => \A i \in DOMAIN ret :
                   /\ ret[i][1] \in 0..(Size(rmsdata) - 1)
                   /\ ret[i][2] \in 0..(Size(rmsdata) - 1)

\* The start the backward scan of C7 gives for the start peak x: the window
\* is x, x-1, ..., x-W100+1, cut at index 0.
ScanStart(x) ==
    LET below == {k \in 0..(W100 - 1) :
                     x - k >= 0 /\ Lt(rmsdata[x - k], lowthr)}
    IN  IF below = {} THEN x ELSE x - Min(below)

\* C7: the refined start of a group is the first sample below lowthr met
\* scanning backward from its start peak over 100 ms of samples (not below
\* index 0), and the peak itself when there is none.
C7_StartRefinement ==
    Returned => \A i \in DOMAIN ret : ret[i][1] = ScanStart(prov[i][1])

C9_NoOverlap ==
    Returned => \A i \in 0..(Size(ret) - 2) : ret[i][2] < ret[i + 1][1]

\* C9 witness: two intervals, the end of the first pushed forward and the
\* start of the second pulled back.
C9_Witness ==
    /\ Returned
    /\ Size(ret) >= 2
    /\ ret[0][2] > prov[0][2]
    /\ ret[1][1] < prov[1][1]

\* C10: the module-level instance keeps idx = [] (len(burst) = 0) through
\* every sequence of calls, returning or raising; a call without data returns
\* an empty Burst whatever was called before.
C10_InstanceUnchanged ==
    /\ burst_idx = EmptyArr
    /\ BurstLen(burst_idx) = 0
    /\ (arg = "None" => Size(ret) = 0)

\* C10 witness: a call has returned a Burst with intervals.
C10_Witness ==
    /\ Returned
    /\ Size(ret) > 0
    /\ BurstLen(burst_idx) = 0

====
